---- MODULE Spec2Model ----
(***************************************************************************)
(* A model of the page scraper (fetch_data.py) and of the Flask server     *)
(* that republishes its snapshot file (server.py).                         *)
(*                                                                         *)
(* Python strings are sequences of one-character strings, so that strip(), *)
(* lower(), startswith() and len() are computed, not assumed.  None is the *)
(* one-element sequence Null, which no text equals.  Texts that are only   *)
(* ever compared whole (URLs, exception messages, type names) are          *)
(* one-element sequences too.                                              *)
(***************************************************************************)
EXTENDS Integers, Sequences, FiniteSets, TLC

VARIABLES
    doc,        \* the parser events of the document fed so far
    parser,     \* the SimpleHTMLParser object's fields
    data,       \* the 'data' dictionary scrape_website assembles, Unset before
    clock,      \* what datetime.now() returns
    scr_pc,     \* scrape_website's position
    url,        \* scrape_website's argument
    html,       \* the decoded response body, as parser events
    frame,      \* scrape_website's locals: the exception, the record, the write
    retval,     \* the value scrape_website returned, Unset before
    file,       \* scraped_data.json: whether it exists, and its JSON tokens
    proc,       \* the Extractor process: its command line, its exit status
    snap,       \* history: the last record written to the file completely
    srv_pc,     \* the request handler's position
    route,      \* the route being served
    srv_data,   \* what get_scraped_data returned
    resp        \* the HTTP response

vars == <<doc, parser, data, clock, scr_pc, url, html, frame, retval, file,
          proc, snap, srv_pc, route, srv_data, resp>>

parseVars == <<doc, parser, data>>
scrapeVars ==
    <<clock, scr_pc, url, html, frame, retval, file, proc, snap>>
serverVars == <<srv_pc, route, srv_data, resp>>

----------------------------------------------------------------------------
(* Bounds of the model *)

MaxEvents == 4
MaxHeadEvents == 4
MaxFree == 3
MaxDocLen == 34
MaxRuns == 2
MaxNested == 5

(* Program constants *)

MaxLinks == 20
MaxParagraphs == 10

----------------------------------------------------------------------------
(* Python values *)

Null == <<"None">>

Truthy(v) == v # Null /\ v # <<>>

Url == <<"http://site.example/">>

RouteIndex == <<"/">>
RouteUI == <<"/ui">>

(* A variable that will hold a dictionary and holds none yet *)
Unset == [unset |-> TRUE]

Whitespace == {" "}

RECURSIVE LStrip(_)
LStrip(s) ==
    IF s # <<>> /\ Head(s) \in Whitespace THEN LStrip(Tail(s)) ELSE s

RECURSIVE RStrip(_)
RStrip(s) ==
    IF s # <<>> /\ s[Len(s)] \in Whitespace
    THEN RStrip(SubSeq(s, 1, Len(s) - 1))
    ELSE s

Strip(s) == RStrip(LStrip(s))

LowerChar(c) ==
    CASE c = "D" -> "d"
      [] c = "K" -> "k"
      [] OTHER -> c

Lower(s) == [i \in 1..Len(s) |-> LowerChar(s[i])]

Digits == {"0", "1", "2", "3", "4", "5", "6", "7", "8", "9"}

Min(a, b) == IF a < b THEN a ELSE b

SliceTo(s, n) == SubSeq(s, 1, Min(Len(s), n))

----------------------------------------------------------------------------
(* Tag names, attribute names and attribute values *)

TagTitle == <<"t", "i", "t", "l", "e">>
TagH1 == <<"h", "1">>
TagA == <<"a">>
TagP == <<"p">>
TagMeta == <<"m", "e", "t", "a">>
TagDiv == <<"d", "i", "v">>
TagHr == <<"h", "r">>

AttrHref == <<"h", "r", "e", "f">>
AttrName == <<"n", "a", "m", "e">>
AttrContent == <<"c", "o", "n", "t", "e", "n", "t">>

Description == <<"d", "e", "s", "c", "r", "i", "p", "t", "i", "o", "n">>
DescriptionCap == <<"D", "e", "s", "c", "r", "i", "p", "t", "i", "o", "n">>
Keywords == <<"k", "e", "y", "w", "o", "r", "d", "s">>

IsHeadingTag(tag) ==
    /\ Len(tag) >= 1
    /\ tag[1] = "h"
    /\ Len(tag) = 2
    /\ tag[2] \in Digits

----------------------------------------------------------------------------
(* SimpleHTMLParser *)

ParserInit ==
    [title |-> <<>>,
     in_title |-> FALSE,
     headings |-> <<>>,
     in_heading |-> FALSE,
     current_heading |-> <<>>,
     links |-> <<>>,
     paragraphs |-> <<>>,
     in_paragraph |-> FALSE,
     current_paragraph |-> <<>>,
     meta_description |-> Null]

RECURSIVE FirstHref(_)
FirstHref(attrs) ==
    IF attrs = <<>> THEN Null
    ELSE IF Head(attrs)[1] = AttrHref THEN Head(attrs)[2]
    ELSE FirstHref(Tail(attrs))

(* MetaStep, comparing the name's value with "description" as it is *)
MetaStep_CaseSensitive(acc, attr) ==
    IF attr[1] = AttrName /\ attr[2] # Null
    THEN IF attr[2] = Description
         THEN [acc EXCEPT !.is_description = TRUE]
         ELSE acc
    ELSE IF attr[1] = AttrContent
         THEN [acc EXCEPT !.content = attr[2]]
         ELSE acc

MetaStep(acc, attr) ==
    IF attr[1] = AttrName /\ attr[2] # Null
    THEN IF Lower(attr[2]) = Description
         THEN [acc EXCEPT !.is_description = TRUE]
         ELSE acc
    ELSE IF attr[1] = AttrContent
         THEN [acc EXCEPT !.content = attr[2]]
         ELSE acc

RECURSIVE MetaScan(_, _)
MetaScan(acc, attrs) ==
    IF attrs = <<>> THEN acc
    ELSE MetaScan(MetaStep(acc, Head(attrs)), Tail(attrs))

(* StartA, appending whenever an href attribute is present *)
StartA_AnyHref(ps, attrs) ==
    LET href == FirstHref(attrs) IN
    IF href # Null
    THEN [ps EXCEPT !.links = Append(@, [text |-> <<>>, href |-> href])]
    ELSE ps

StartA(ps, attrs) ==
    LET href == FirstHref(attrs) IN
    IF Truthy(href)
    THEN [ps EXCEPT !.links = Append(@, [text |-> <<>>, href |-> href])]
    ELSE ps

(* StartMeta, keeping the first description *)
StartMeta_KeepFirst(ps, attrs) ==
    LET scan == MetaScan([is_description |-> FALSE, content |-> Null], attrs) IN
    IF scan.is_description /\ Truthy(scan.content) /\ ps.meta_description = Null
    THEN [ps EXCEPT !.meta_description = scan.content]
    ELSE ps

StartMeta(ps, attrs) ==
    LET scan == MetaScan([is_description |-> FALSE, content |-> Null], attrs) IN
    IF scan.is_description /\ Truthy(scan.content)
    THEN [ps EXCEPT !.meta_description = scan.content]
    ELSE ps

StartTitle(ps) == [ps EXCEPT !.in_title = TRUE]

(* StartHeading, keeping what the buffer holds *)
StartHeading_KeepBuffer(ps) == [ps EXCEPT !.in_heading = TRUE]

StartHeading(ps) == [ps EXCEPT !.in_heading = TRUE, !.current_heading = <<>>]

StartP(ps) == [ps EXCEPT !.in_paragraph = TRUE, !.current_paragraph = <<>>]

handle_starttag(ps, tag, attrs) ==
    IF tag = TagTitle THEN StartTitle(ps)
    ELSE IF IsHeadingTag(tag) THEN StartHeading(ps)
    ELSE IF tag = TagA THEN StartA(ps, attrs)
    ELSE IF tag = TagP THEN StartP(ps)
    ELSE IF tag = TagMeta THEN StartMeta(ps, attrs)
    ELSE ps

EndHeading(ps) ==
    LET off == [ps EXCEPT !.in_heading = FALSE] IN
    IF Strip(ps.current_heading) # <<>>
    THEN [off EXCEPT !.headings = Append(@, Strip(ps.current_heading))]
    ELSE off

(* EndP, appending the paragraph untrimmed *)
EndP_Untrimmed(ps) ==
    LET off == [ps EXCEPT !.in_paragraph = FALSE] IN
    IF Strip(ps.current_paragraph) # <<>>
    THEN [off EXCEPT !.paragraphs = Append(@, ps.current_paragraph)]
    ELSE off

EndP(ps) ==
    LET off == [ps EXCEPT !.in_paragraph = FALSE] IN
    IF Strip(ps.current_paragraph) # <<>>
    THEN [off EXCEPT !.paragraphs = Append(@, Strip(ps.current_paragraph))]
    ELSE off

(* handle_endtag, every other end tag closing the paragraph *)
handle_endtag_OthersCloseP(ps, tag) ==
    IF tag = TagTitle THEN [ps EXCEPT !.in_title = FALSE]
    ELSE IF IsHeadingTag(tag) THEN EndHeading(ps)
    ELSE IF tag = TagP THEN EndP(ps)
    ELSE [ps EXCEPT !.in_paragraph = FALSE]

handle_endtag(ps, tag) ==
    IF tag = TagTitle THEN [ps EXCEPT !.in_title = FALSE]
    ELSE IF IsHeadingTag(tag) THEN EndHeading(ps)
    ELSE IF tag = TagP THEN EndP(ps)
    ELSE ps

(* DataDispatch, testing in_heading before in_title *)
DataDispatch_HeadingFirst(ps, d) ==
    IF ps.in_heading THEN [ps EXCEPT !.current_heading = @ \o d]
    ELSE IF ps.in_title THEN [ps EXCEPT !.title = @ \o d]
    ELSE IF ps.in_paragraph THEN [ps EXCEPT !.current_paragraph = @ \o d]
    ELSE ps

DataDispatch(ps, d) ==
    IF ps.in_title THEN [ps EXCEPT !.title = @ \o d]
    ELSE IF ps.in_heading THEN [ps EXCEPT !.current_heading = @ \o d]
    ELSE IF ps.in_paragraph THEN [ps EXCEPT !.current_paragraph = @ \o d]
    ELSE ps

(* DataLinkText, overwriting the text the last link already has *)
DataLinkText_Overwrite(ps, d) ==
    IF ps.links # <<>>
    THEN [ps EXCEPT !.links[Len(ps.links)].text = Strip(d)]
    ELSE ps

DataLinkText(ps, d) ==
    IF ps.links # <<>> /\ ~Truthy(ps.links[Len(ps.links)].text)
    THEN [ps EXCEPT !.links[Len(ps.links)].text = Strip(d)]
    ELSE ps

handle_data(ps, d) == DataLinkText(DataDispatch(ps, d), d)

----------------------------------------------------------------------------
(* Parser events: what HTMLParser.feed calls the handlers with *)

StartEv(tag, attrs) == [kind |-> "start", tag |-> tag, attrs |-> attrs, text |-> <<>>]
EndEv(tag) == [kind |-> "end", tag |-> tag, attrs |-> <<>>, text |-> <<>>]
DataEv(d) == [kind |-> "data", tag |-> <<>>, attrs |-> <<>>, text |-> d]

(* Attribute lists and texts the documents are built from *)
U1 == <<"u", "1">>
U2 == <<"u", "2">>
C1Text == <<"c", "1">>
C2Text == <<"c", "2">>

HrefU1 == <<(<<AttrHref, U1>>)>>
HrefU2 == <<(<<AttrHref, U2>>)>>
HrefEmpty == <<(<<AttrHref, <<>> >>)>>
NoAttrs == <<>>

MetaDesc1 == << <<AttrName, Description>>, <<AttrContent, C1Text>> >>
MetaDesc2 == << <<AttrContent, C2Text>>, <<AttrName, DescriptionCap>> >>
MetaNoContent == <<(<<AttrName, Description>>)>>
MetaEmptyContent == << <<AttrName, Description>>, <<AttrContent, <<>> >> >>
MetaKeywords == << <<AttrName, Keywords>>, <<AttrContent, C1Text>> >>

TextX == <<"x", " ">>
TextY == <<" ", "y">>
TextBlank == <<(" ")>>

Handle(ps, e) ==
    IF e.kind = "start" THEN handle_starttag(ps, e.tag, e.attrs)
    ELSE IF e.kind = "end" THEN handle_endtag(ps, e.tag)
    ELSE handle_data(ps, e.text)

RECURSIVE FeedFrom(_, _)
FeedFrom(ps, events) ==
    IF events = <<>> THEN ps
    ELSE FeedFrom(Handle(ps, Head(events)), Tail(events))

feed(events) == FeedFrom(ParserInit, events)

(* PageData, with the title trimmed *)
PageData_TitleStripped(ps, u, now) ==
    [title |-> Strip(ps.title),
     url |-> u,
     heading |-> IF ps.headings # <<>> THEN ps.headings[1] ELSE Null,
     metaDescription |-> ps.meta_description,
     links |-> SliceTo(ps.links, MaxLinks),
     paragraphs |-> SliceTo(ps.paragraphs, MaxParagraphs),
     timestamp |-> now]

(* scrape_website's 'data' dictionary *)
PageData(ps, u, now) ==
    [title |-> ps.title,
     url |-> u,
     heading |-> IF ps.headings # <<>> THEN ps.headings[1] ELSE Null,
     metaDescription |-> ps.meta_description,
     links |-> SliceTo(ps.links, MaxLinks),
     paragraphs |-> SliceTo(ps.paragraphs, MaxParagraphs),
     timestamp |-> now]

----------------------------------------------------------------------------
(* Dictionaries, JSON and the snapshot file.                               *)
(*                                                                         *)
(* A dictionary is a record.  A value of a top-level key is itself a       *)
(* record: a dictionary, Str(s) for a string or None.                      *)

Str(s) == [str |-> s]
None == [none |-> TRUE]

Get(d, k) == IF k \in DOMAIN d THEN d[k] ELSE None

(* Python's truth value of a top-level value *)
Truth(v) ==
    IF "none" \in DOMAIN v THEN FALSE
    ELSE IF "str" \in DOMAIN v THEN v.str # <<>>
    ELSE DOMAIN v # {}

(* datetime.now().isoformat(): a text that grows with the time *)
Iso(now) == <<"T">> \o [i \in 1..now |-> "+"]

(* json.dump writes an object as a sequence of chunks: the opening brace,  *)
(* one chunk per key in the dictionary's order, the closing brace.         *)
OpenBrace == [brace |-> "{"]
CloseBrace == [brace |-> "}"]

KeyOrder ==
    <<"source_url", "scraped_at", "data", "error", "message", "timestamp">>

RECURSIVE Items(_, _)
Items(d, keys) ==
    IF keys = <<>> THEN <<>>
    ELSE IF Head(keys) \in DOMAIN d
         THEN <<(Head(keys) :> d[Head(keys)])>> \o Items(d, Tail(keys))
         ELSE Items(d, Tail(keys))

(* A JSON value that is not an object (null, a string) is one chunk *)
Literal(v) == [literal |-> v]
IsLiteral(tok) == DOMAIN tok = {"literal"}

(* isinstance(v, dict) *)
IsObject(v) == "none" \notin DOMAIN v /\ "str" \notin DOMAIN v

Encode(d) ==
    IF IsObject(d) THEN <<OpenBrace>> \o Items(d, KeyOrder) \o <<CloseBrace>>
    ELSE <<Literal(d)>>

RECURSIVE Merge(_)
Merge(items) ==
    IF items = <<>> THEN <<>>
    ELSE IF Len(items) = 1 THEN items[1]
    ELSE Merge(SubSeq(items, 1, Len(items) - 1)) @@ items[Len(items)]

IsBrace(tok) == DOMAIN tok = {"brace"}

(* Decode, taking a truncated object for the object of the chunks read *)
Decode_Lenient(toks) ==
    IF /\ Len(toks) >= 2
       /\ toks[1] = OpenBrace
       /\ \A i \in 2..(Len(toks) - 1) : ~IsBrace(toks[i]) /\ ~IsLiteral(toks[i])
    THEN [ok |-> TRUE,
          value |-> Merge(SelectSeq(Tail(toks), LAMBDA t : ~IsBrace(t)))]
    ELSE IF Len(toks) = 1 /\ IsLiteral(toks[1])
         THEN [ok |-> TRUE, value |-> toks[1].literal]
         ELSE [ok |-> FALSE, value |-> Unset]

(* json.load: the value the chunks spell, or a JSONDecodeError when they   *)
(* are not one whole value (an empty or truncated file, a stray brace)     *)
Decode(toks) ==
    IF /\ Len(toks) >= 2
       /\ toks[1] = OpenBrace
       /\ toks[Len(toks)] = CloseBrace
       /\ \A i \in 2..(Len(toks) - 1) : ~IsBrace(toks[i]) /\ ~IsLiteral(toks[i])
    THEN [ok |-> TRUE, value |-> Merge(SubSeq(toks, 2, Len(toks) - 1))]
    ELSE IF Len(toks) = 1 /\ IsLiteral(toks[1])
         THEN [ok |-> TRUE, value |-> toks[1].literal]
         ELSE [ok |-> FALSE, value |-> Unset]

(* open(..., 'a') in place of 'w': the old content stays *)
OpenAppending(f) == [exists |-> TRUE, content |-> f.content]

(* open('scraped_data.json', 'w'): creates or truncates the file *)
OpenTruncating(f) == [exists |-> TRUE, content |-> <<>>]

----------------------------------------------------------------------------
(* scrape_website *)

NoExc == [message |-> <<>>, type |-> <<>>]

URLErrorExc ==
    [message |-> <<"<urlopen error [Errno -2] Name or service not known>">>,
     type |-> <<"URLError">>]
HTTPErrorExc ==
    [message |-> <<"HTTP Error 404: Not Found">>, type |-> <<"HTTPError">>]
DecodeExc ==
    [message |-> <<"'utf-8' codec can't decode byte 0xff in position 0">>,
     type |-> <<"UnicodeDecodeError">>]
ParseExc ==
    [message |-> <<"we should not get here!">>, type |-> <<"AssertionError">>]
OpenExc ==
    [message |-> <<"[Errno 13] Permission denied: 'scraped_data.json'">>,
     type |-> <<"PermissionError">>]
WriteExc ==
    [message |-> <<"[Errno 28] No space left on device">>, type |-> <<"OSError">>]

RequestErrors == {URLErrorExc, HTTPErrorExc, DecodeExc}

(* The exceptions the first except clause catches *)
IsURLError(e) == e.type \in {<<"URLError">>, <<"HTTPError">>}

FrameInit == [e |-> NoExc, handling |-> FALSE, out |-> Unset, todo |-> <<>>]

(* ScrapedData, with an error key beside the data *)
ScrapedData_WithError(u, now, d) ==
    [source_url |-> Str(u), scraped_at |-> Str(Iso(now)), data |-> d,
     error |-> [message |-> <<>>, type |-> <<>>]]

ScrapedData(u, now, d) ==
    [source_url |-> Str(u), scraped_at |-> Str(Iso(now)), data |-> d]

(* ErrorData, with the message where the type belongs *)
ErrorData_TypeIsMessage(u, now, e) ==
    [source_url |-> Str(u),
     scraped_at |-> Str(Iso(now)),
     error |-> [message |-> e.message, type |-> e.message]]

ErrorData(u, now, e) ==
    [source_url |-> Str(u),
     scraped_at |-> Str(Iso(now)),
     error |-> [message |-> e.message, type |-> e.type]]

(* The documents a request may return *)
DocPage ==
    <<StartEv(TagTitle, NoAttrs), DataEv(TextX), EndEv(TagTitle),
      StartEv(TagMeta, MetaDesc1),
      StartEv(TagH1, NoAttrs), DataEv(TextY), EndEv(TagH1),
      StartEv(TagP, NoAttrs), DataEv(TextX), EndEv(TagP),
      StartEv(TagA, HrefU1), DataEv(TextY), EndEv(TagA)>>
DocEmpty == <<>>
Docs == {DocPage, DocEmpty}

Invoke(u) ==
    /\ scr_pc = "idle"
    /\ clock < MaxRuns
    /\ scr_pc' = "request"
    /\ url' = u
    /\ clock' = clock + 1
    /\ html' = <<>>
    /\ frame' = FrameInit
    /\ retval' = Unset
    /\ doc' = <<>>
    /\ parser' = ParserInit
    /\ data' = Unset
    /\ UNCHANGED <<file, snap, serverVars>>

(* urlopen, read or decode raises *)
RequestRaises(e) ==
    /\ scr_pc = "request"
    /\ frame' = [frame EXCEPT !.e = e]
    /\ scr_pc' = "except"
    /\ UNCHANGED <<parseVars, clock, url, html, retval, file, serverVars, proc, snap>>

RequestReturns(h) ==
    /\ scr_pc = "request"
    /\ html' = h
    /\ scr_pc' = "parse"
    /\ UNCHANGED <<parseVars, clock, url, frame, retval, file, serverVars, proc, snap>>

(* parser.feed(html_content) and the two dictionaries *)
Parse ==
    /\ scr_pc = "parse"
    /\ doc' = html
    /\ parser' = feed(html)
    /\ data' = PageData(parser', url, Iso(clock))
    /\ frame' = [frame EXCEPT !.out = ScrapedData(url, clock, data')]
    /\ scr_pc' = "open"
    /\ UNCHANGED <<clock, url, html, retval, file, serverVars, proc, snap>>

ParseRaises ==
    /\ scr_pc = "parse"
    /\ frame' = [frame EXCEPT !.e = ParseExc]
    /\ scr_pc' = "except"
    /\ UNCHANGED <<parseVars, clock, url, html, retval, file, serverVars, proc, snap>>

(* The three `with open(...) as f: json.dump(..., f)` blocks: the one of   *)
(* the try block writes scraped_data, those of the except clauses write    *)
(* error_data.  An exception in the try block is caught by                 *)
(* `except Exception`; one in an except clause leaves scrape_website.      *)
OpenForWrite ==
    /\ scr_pc = "open"
    /\ file' = OpenTruncating(file)
    /\ frame' = [frame EXCEPT !.todo = Encode(frame.out)]
    /\ scr_pc' = "dump"
    /\ UNCHANGED <<parseVars, clock, url, html, retval, serverVars, proc, snap>>

OpenRaises ==
    /\ scr_pc = "open"
    /\ frame' = [frame EXCEPT !.e = OpenExc]
    /\ scr_pc' = IF frame.handling THEN "raised" ELSE "except"
    /\ UNCHANGED <<parseVars, clock, url, html, retval, file, serverVars, proc, snap>>

DumpChunk ==
    /\ scr_pc = "dump"
    /\ frame.todo # <<>>
    /\ file' = [file EXCEPT !.content = Append(@, Head(frame.todo))]
    /\ frame' = [frame EXCEPT !.todo = Tail(@)]
    /\ snap' = IF Tail(frame.todo) = <<>> THEN frame.out ELSE snap
    /\ UNCHANGED <<parseVars, clock, scr_pc, url, html, retval, serverVars, proc>>

DumpRaises ==
    /\ scr_pc = "dump"
    /\ frame.todo # <<>>
    /\ frame' = [frame EXCEPT !.e = WriteExc, !.todo = <<>>]
    /\ scr_pc' = IF frame.handling THEN "raised" ELSE "except"
    /\ UNCHANGED <<parseVars, clock, url, html, retval, file, serverVars, proc, snap>>

Return ==
    /\ scr_pc = "dump"
    /\ frame.todo = <<>>
    /\ retval' = frame.out
    /\ scr_pc' = "returned"
    /\ UNCHANGED <<parseVars, clock, url, html, frame, file, serverVars, proc, snap>>

ExceptURLError ==
    /\ scr_pc = "except"
    /\ IsURLError(frame.e)
    /\ frame' = [frame EXCEPT !.handling = TRUE,
                              !.out = ErrorData(url, clock, frame.e)]
    /\ scr_pc' = "open"
    /\ UNCHANGED <<parseVars, clock, url, html, retval, file, serverVars, proc, snap>>

ExceptException ==
    /\ scr_pc = "except"
    /\ ~IsURLError(frame.e)
    /\ frame' = [frame EXCEPT !.handling = TRUE,
                              !.out = ErrorData(url, clock, frame.e)]
    /\ scr_pc' = "open"
    /\ UNCHANGED <<parseVars, clock, url, html, retval, file, serverVars, proc, snap>>

(* The process ends, with scrape_website returned or its exception caught  *)
(* by the main block; a later process may run.                             *)
(* The command lines and environments the Extractor is started with *)
Prog == <<"fetch_data.py">>
EnvUrl == <<"http://env.example/">>
Argvs == {<<Prog>>, <<Prog, Url>>, <<Prog, <<>> >>}
Envs == {Null, <<>>, EnvUrl}

ProcInit == [argv |-> <<>>, env |-> Null, exit |-> Unset]

SysExit(n) == [code |-> n]

(* sys.argv[1] if len(sys.argv) > 1 else os.environ.get('SCRAPE_URL') *)
ResolveUrl(argv, env) == IF Len(argv) > 1 THEN argv[2] ELSE env

(* __main__ finds no URL: sys.exit(1) *)
MainNoUrl(argv, env) ==
    /\ scr_pc = "idle"
    /\ ~Truthy(ResolveUrl(argv, env))
    /\ proc' = [argv |-> argv, env |-> env, exit |-> SysExit(1)]
    /\ UNCHANGED <<parseVars, clock, scr_pc, url, html, frame, retval, file,
                   snap, serverVars>>

(* __main__ calls scrape_website(url_to_scrape) *)
MainScrape(argv, env) ==
    /\ Truthy(ResolveUrl(argv, env))
    /\ Invoke(ResolveUrl(argv, env))
    /\ proc' = [argv |-> argv, env |-> env, exit |-> Unset]

(* Exit, with status 1 when the record returned is a Failure *)
Exit_FailureIsError ==
    /\ scr_pc \in {"returned", "raised"}
    /\ scr_pc' = "idle"
    /\ proc' = [proc EXCEPT !.exit =
                    SysExit(IF scr_pc = "returned" /\ "data" \in DOMAIN retval
                            THEN 0 ELSE 1)]
    /\ UNCHANGED <<parseVars, clock, url, html, frame, retval, file, snap,
                   serverVars>>

(* __main__ after scrape_website: sys.exit(0) when it returned,            *)
(* sys.exit(1) when an exception left it                                   *)
Exit ==
    /\ scr_pc \in {"returned", "raised"}
    /\ scr_pc' = "idle"
    /\ proc' = [proc EXCEPT !.exit =
                    SysExit(IF scr_pc = "returned" THEN 0 ELSE 1)]
    /\ UNCHANGED <<parseVars, clock, url, html, frame, retval, file, snap,
                   serverVars>>

(* The steps of a run once scrape_website has been called *)
ScrapeSteps ==
    \/ \E e \in RequestErrors : RequestRaises(e)
    \/ \E h \in Docs : RequestReturns(h)
    \/ Parse
    \/ ParseRaises
    \/ OpenForWrite
    \/ OpenRaises
    \/ DumpChunk
    \/ DumpRaises
    \/ Return
    \/ ExceptURLError
    \/ ExceptException
    \/ Exit

(* The Extractor, started as `python fetch_data.py <Url>` *)
Scraper ==
    \/ MainScrape(<<Prog, Url>>, Null)
    \/ ScrapeSteps

(* SpecMain: the Extractor alone, over every command line and environment *)
NextMain ==
    \/ \E argv \in Argvs, env \in Envs : MainNoUrl(argv, env)
    \/ \E argv \in Argvs, env \in Envs : MainScrape(argv, env)
    \/ ScrapeSteps

----------------------------------------------------------------------------
(* The state after construction: no document fed, no run started, no       *)
(* snapshot file, no request in progress.                                  *)

NoFile == [exists |-> FALSE, content |-> <<>>]

Init ==
    /\ doc = <<>>
    /\ parser = ParserInit
    /\ data = Unset
    /\ clock = 0
    /\ scr_pc = "idle"
    /\ url = Null
    /\ html = <<>>
    /\ frame = FrameInit
    /\ retval = Unset
    /\ file = NoFile
    /\ proc = ProcInit
    /\ snap = Unset
    /\ srv_pc = "idle"
    /\ route = RouteIndex
    /\ srv_data = Unset
    /\ resp = Unset

----------------------------------------------------------------------------
(* server.py *)

NotAvailable(now) ==
    [error |-> Str(<<"No scraped data available">>),
     message |-> Str(<<"Run the scraper first using 'node scrape.js [URL]'">>),
     timestamp |-> Str(Iso(now))]

InvalidData(msg, now) ==
    [error |-> Str(<<"Invalid scraped data">>),
     message |-> Str(msg),
     timestamp |-> Str(Iso(now))]

FailedRead(msg, now) ==
    [error |-> Str(<<"Failed to read scraped data">>),
     message |-> Str(msg),
     timestamp |-> Str(Iso(now))]

NoSuchFileMsg ==
    <<"[Errno 2] No such file or directory: 'scraped_data.json'">>
ReadErrorMsg == <<"[Errno 5] Input/output error">>
JSONDecodeMsg == <<"Expecting value: line 1 column 1 (char 0)">>

Returned(v) == [raised |-> FALSE, value |-> v]
Raised == [raised |-> TRUE, value |-> Unset]

(* ReadSnapshot, without the `except Exception` clause *)
ReadSnapshot_NoCatchAll(f, io_error, now) ==
    IF ~f.exists \/ io_error THEN Raised
    ELSE IF Decode(f.content).ok
         THEN Returned(Decode(f.content).value)
         ELSE Returned(InvalidData(JSONDecodeMsg, now))

(* get_scraped_data from its open() on: the file may have gone since the   *)
(* existence check, the read may fail, the content may not parse.          *)
ReadSnapshot(f, io_error, now) ==
    IF ~f.exists THEN Returned(FailedRead(NoSuchFileMsg, now))
    ELSE IF io_error THEN Returned(FailedRead(ReadErrorMsg, now))
    ELSE IF Decode(f.content).ok
         THEN Returned(Decode(f.content).value)
         ELSE Returned(InvalidData(JSONDecodeMsg, now))

NoPage == [section |-> "none"]

(* index, answering 500 when the data carries an error *)
index_ErrorStatus(d) ==
    [route |-> RouteIndex,
     status |-> IF Truth(Get(d, "error")) THEN 500 ELSE 200,
     body |-> Encode(d),
     page |-> NoPage]

(* index(): jsonify(data) *)
index(d) ==
    [route |-> RouteIndex, status |-> 200, body |-> Encode(d), page |-> NoPage]

(* The template of ui(): the error box when data.get('error') is true,     *)
(* otherwise the info box and, when data.get('data') is true, the page     *)
(* information.                                                            *)
Template(d) ==
    IF Truth(Get(d, "error"))
    THEN [section |-> "error",
          error |-> Get(d, "error"),
          message |-> Get(d, "message"),
          timestamp |-> Get(d, "timestamp")]
    ELSE [section |-> "info",
          source_url |-> Get(d, "source_url"),
          scraped_at |-> Get(d, "scraped_at"),
          page_information |-> Truth(Get(d, "data")),
          page |-> Get(d, "data")]

(* Rendering the template raises UndefinedError when it calls .get on a    *)
(* value that has none: on data itself, or on data.get('data') in the page *)
(* information.                                                            *)
TemplateRaises(d) ==
    \/ ~IsObject(d)
    \/ /\ ~Truth(Get(d, "error"))
       /\ Truth(Get(d, "data"))
       /\ ~IsObject(Get(d, "data"))

ui(d) ==
    [route |-> RouteUI, status |-> 200, body |-> Encode(d), page |-> Template(d)]

(* What Flask answers: the view's response, or 500 when the view raises *)
View(r, got) ==
    IF got.raised
    THEN [route |-> r, status |-> 500, body |-> <<>>, page |-> NoPage]
    ELSE IF r = RouteIndex THEN index(got.value)
    ELSE IF TemplateRaises(got.value)
         THEN [route |-> r, status |-> 500, body |-> <<>>, page |-> NoPage]
         ELSE ui(got.value)

Routes == {RouteIndex, RouteUI}

(* A request arrives and get_scraped_data finds no file: the view answers  *)
(* with the "not available" object.                                        *)
RequestMissing(r) ==
    /\ srv_pc = "idle"
    /\ ~file.exists
    /\ route' = r
    /\ srv_data' = NotAvailable(clock)
    /\ resp' = View(r, Returned(srv_data'))
    /\ UNCHANGED <<srv_pc, parseVars, scrapeVars>>

(* A request arrives and os.path.exists finds the file *)
RequestFound(r) ==
    /\ srv_pc = "idle"
    /\ file.exists
    /\ route' = r
    /\ srv_pc' = "open"
    /\ srv_data' = Unset
    /\ resp' = Unset
    /\ UNCHANGED <<parseVars, scrapeVars>>

(* open, json.load, and the view's answer *)
Load(io_error) ==
    /\ srv_pc = "open"
    /\ LET got == ReadSnapshot(file, io_error, clock) IN
          /\ srv_data' = got.value
          /\ resp' = View(route, got)
    /\ srv_pc' = "idle"
    /\ UNCHANGED <<route, parseVars, scrapeVars>>

Server ==
    \/ \E r \in Routes : RequestMissing(r)
    \/ \E r \in Routes : RequestFound(r)
    \/ Load(FALSE)

(* The file is deleted from outside *)
DeleteFile ==
    /\ file.exists
    /\ file' = NoFile
    /\ UNCHANGED <<parseVars, clock, scr_pc, url, html, frame, retval, serverVars, proc, snap>>

(* The read fails *)
LoadFails == Load(TRUE)

(* Spec: runs of the Extractor and requests to the Server, interleaved *)
Next == Scraper \/ Server

Spec == Init /\ [][Next]_vars

SpecMain == Init /\ [][NextMain]_vars

(* SpecEnv: the same, on a file system where the file may be deleted from  *)
(* outside and a read may fail                                             *)
NextEnv == Scraper \/ Server \/ DeleteFile \/ LoadFails

SpecEnv == Init /\ [][NextEnv]_vars

(* What the file may hold when it is not the Extractor that wrote it: an   *)
(* empty file, a truncated object, text that is no JSON, JSON values that  *)
(* are not objects, objects of other shapes.                               *)
StoreContents ==
    {<<>>,
     <<OpenBrace>>,
     <<OpenBrace, ("error" :> Str(<<"e">>))>>,
     <<CloseBrace>>,
     <<Literal(None)>>,
     <<Literal(Str(<<"s">>))>>,
     Encode([error |-> Str(<<"e">>)]),
     Encode([data |-> Str(<<"s">>)]),
     Encode([data |-> [title |-> Null]]),
     Encode([source_url |-> Str(Url)])}

(* The file is written from outside *)
PutFile(c) ==
    /\ file' = [exists |-> TRUE, content |-> c]
    /\ file' # file
    /\ UNCHANGED <<parseVars, clock, scr_pc, url, html, frame, retval, serverVars, proc, snap>>

(* SpecStore: the Server over every state of the file *)
NextStore ==
    \/ Server
    \/ DeleteFile
    \/ LoadFails
    \/ \E c \in StoreContents : PutFile(c)

SpecStore == Init /\ [][NextStore]_vars

----------------------------------------------------------------------------
(* HTMLParser.feed, one handler call at a time, and the assembly of the    *)
(* 'data' dictionary once the document is exhausted.                       *)

Starttag(tag, attrs) ==
    /\ data = Unset
    /\ parser' = handle_starttag(parser, tag, attrs)
    /\ doc' = Append(doc, StartEv(tag, attrs))
    /\ UNCHANGED <<data, scrapeVars, serverVars>>

Endtag(tag) ==
    /\ data = Unset
    /\ parser' = handle_endtag(parser, tag)
    /\ doc' = Append(doc, EndEv(tag))
    /\ UNCHANGED <<data, scrapeVars, serverVars>>

Data(d) ==
    /\ data = Unset
    /\ parser' = handle_data(parser, d)
    /\ doc' = Append(doc, DataEv(d))
    /\ UNCHANGED <<data, scrapeVars, serverVars>>

Assemble ==
    /\ data = Unset
    /\ data' = PageData(parser, Url, Iso(clock))
    /\ UNCHANGED <<doc, parser, scrapeVars, serverVars>>

(* SpecParser: every kind of event, short documents *)
ParserStarts ==
    {<<TagTitle, NoAttrs>>, <<TagH1, NoAttrs>>, <<TagP, NoAttrs>>,
     <<TagDiv, NoAttrs>>, <<TagA, HrefU1>>, <<TagMeta, MetaDesc1>>,
     <<TagHr, HrefU1>>}
ParserEnds == {TagTitle, TagH1, TagP, TagA, TagMeta, TagDiv}
ParserTexts == {TextX, TextBlank}

NextParser ==
    \/ \E s \in ParserStarts : Len(doc) < MaxEvents /\ Starttag(s[1], s[2])
    \/ \E t \in ParserEnds : Len(doc) < MaxEvents /\ Endtag(t)
    \/ \E d \in ParserTexts : Len(doc) < MaxEvents /\ Data(d)
    \/ Assemble

SpecParser == Init /\ [][NextParser]_vars

(* SpecHead: the elements of a document's head *)
HeadStarts ==
    {<<TagTitle, NoAttrs>>, <<TagMeta, MetaDesc1>>, <<TagMeta, MetaDesc2>>,
     <<TagMeta, MetaNoContent>>, <<TagMeta, MetaEmptyContent>>,
     <<TagMeta, MetaKeywords>>}
HeadEnds == {TagTitle}
HeadTexts == {TextX, TextY}

NextHead ==
    \/ \E s \in HeadStarts : Len(doc) < MaxHeadEvents /\ Starttag(s[1], s[2])
    \/ \E t \in HeadEnds : Len(doc) < MaxHeadEvents /\ Endtag(t)
    \/ \E d \in HeadTexts : Len(doc) < MaxHeadEvents /\ Data(d)
    \/ Assemble

SpecHead == Init /\ [][NextHead]_vars

(* SpecCaps: paragraphs and anchors, in documents long enough to pass the  *)
(* caps: the first MaxFree events are free, the rest of the document       *)
(* repeats them with period MaxFree.                                       *)
CapsStarts ==
    {<<TagP, NoAttrs>>, <<TagA, HrefU1>>, <<TagA, HrefU2>>,
     <<TagA, HrefEmpty>>, <<TagA, NoAttrs>>, <<TagTitle, NoAttrs>>,
     <<TagH1, NoAttrs>>}
CapsEnds == {TagP}
CapsTexts == {TextX, TextY, TextBlank}

CapsMay(e) ==
    IF Len(doc) < MaxFree THEN TRUE
    ELSE Len(doc) < MaxDocLen /\ e = doc[Len(doc) + 1 - MaxFree]

NextCaps ==
    \/ \E s \in CapsStarts : CapsMay(StartEv(s[1], s[2])) /\ Starttag(s[1], s[2])
    \/ \E t \in CapsEnds : CapsMay(EndEv(t)) /\ Endtag(t)
    \/ \E d \in CapsTexts : CapsMay(DataEv(d)) /\ Data(d)
    \/ Assemble

SpecCaps == Init /\ [][NextCaps]_vars

(* The elements a document has open after its events d, innermost last.    *)
(* meta is a void element: its start tag opens nothing.  An end tag that   *)
(* does not close the innermost open element leaves a Mismatch behind.     *)
Mismatch == <<"!">>

RECURSIVE OpenElements(_)
OpenElements(d) ==
    IF d = <<>> THEN <<>>
    ELSE LET e == d[Len(d)]
             st == OpenElements(SubSeq(d, 1, Len(d) - 1))
         IN IF e.kind = "start" /\ e.tag # TagMeta THEN Append(st, e.tag)
            ELSE IF e.kind = "end"
                 THEN IF st # <<>> /\ st[Len(st)] = e.tag
                      THEN SubSeq(st, 1, Len(st) - 1)
                      ELSE Append(st, Mismatch)
            ELSE st

(* Every element is closed, innermost first *)
WellFormed(d) == OpenElements(d) = <<>>

(* SpecNested: properly nested documents: an end tag closes the innermost  *)
(* open element.                                                           *)
NestedStarts ==
    {<<TagTitle, NoAttrs>>, <<TagH1, NoAttrs>>, <<TagP, NoAttrs>>,
     <<TagA, HrefU1>>, <<TagMeta, MetaDesc1>>}
NestedEnds == {TagTitle, TagH1, TagP, TagA}
NestedTexts == {TextX, TextBlank}

Innermost(d, t) ==
    OpenElements(d) # <<>> /\ OpenElements(d)[Len(OpenElements(d))] = t

NextNested ==
    \/ \E s \in NestedStarts : Len(doc) < MaxNested /\ Starttag(s[1], s[2])
    \/ \E t \in NestedEnds :
          Len(doc) < MaxNested /\ Innermost(doc, t) /\ Endtag(t)
    \/ \E d \in NestedTexts : Len(doc) < MaxNested /\ Data(d)
    \/ Assemble

SpecNested == Init /\ [][NextNested]_vars

----------------------------------------------------------------------------
(* What a document says, read off the event sequence without running the   *)
(* parser.                                                                 *)

IsStart(e, tag) == e.kind = "start" /\ e.tag = tag
IsEnd(e, tag) == e.kind = "end" /\ e.tag = tag
IsHeadingStart(e) == e.kind = "start" /\ IsHeadingTag(e.tag)
IsHeadingEnd(e) == e.kind = "end" /\ IsHeadingTag(e.tag)

MaxOf(S) == IF S = {} THEN 0 ELSE CHOOSE k \in S : \A j \in S : j <= k
MinOf(S, dflt) == IF S = {} THEN dflt ELSE CHOOSE k \in S : \A j \in S : k <= j

(* The texts of the data events at the positions J, joined in order *)
RECURSIVE ConcatTexts(_, _)
ConcatTexts(d, J) ==
    IF J = {} THEN <<>>
    ELSE LET m == MinOf(J, 0) IN d[m].text \o ConcatTexts(d, J \ {m})

LastStart(d, i, tag) == MaxOf({k \in 1..(i - 1) : IsStart(d[k], tag)})
LastEnd(d, i, tag) == MaxOf({k \in 1..(i - 1) : IsEnd(d[k], tag)})

TitleOpenAt(d, i) == LastStart(d, i, TagTitle) > LastEnd(d, i, TagTitle)
HeadingOpenAt(d, i) ==
    MaxOf({k \in 1..(i - 1) : IsHeadingStart(d[k])})
        > MaxOf({k \in 1..(i - 1) : IsHeadingEnd(d[k])})

(* The text a </p> at position i finds accumulated: the data since the     *)
(* last <p>, up to the first </p> after it, that neither an open title nor *)
(* an open heading took.                                                   *)
ParagraphTextAt(d, i) ==
    LET s == LastStart(d, i, TagP) IN
    IF s = 0 THEN <<>>
    ELSE ConcatTexts(d, {j \in (s + 1)..(i - 1) :
            /\ d[j].kind = "data"
            /\ \A k \in (s + 1)..(j - 1) : ~IsEnd(d[k], TagP)
            /\ ~TitleOpenAt(d, j)
            /\ ~HeadingOpenAt(d, j)})

RECURSIVE ClosedParagraphs(_, _)
ClosedParagraphs(d, n) ==
    IF n = 0 THEN <<>>
    ELSE LET t == Strip(ParagraphTextAt(d, n)) IN
         IF IsEnd(d[n], TagP) /\ t # <<>>
         THEN Append(ClosedParagraphs(d, n - 1), t)
         ELSE ClosedParagraphs(d, n - 1)

(* The <p> elements of the document: each <p> start tag opens one, whose   *)
(* text is the data up to the next <p>, </p> or the end of the document.   *)
PElementText(d, s) ==
    LET stop == MinOf({k \in (s + 1)..Len(d) :
                          IsStart(d[k], TagP) \/ IsEnd(d[k], TagP)}, Len(d) + 1)
    IN ConcatTexts(d, {j \in (s + 1)..(stop - 1) : d[j].kind = "data"})

RECURSIVE PElements(_, _)
PElements(d, n) ==
    IF n = 0 THEN <<>>
    ELSE IF IsStart(d[n], TagP) /\ Strip(PElementText(d, n)) # <<>>
         THEN Append(PElements(d, n - 1), Strip(PElementText(d, n)))
         ELSE PElements(d, n - 1)

(* The value of the first href attribute, Null without one *)
HrefOf(attrs) ==
    LET I == {i \in 1..Len(attrs) : attrs[i][1] = AttrHref} IN
    IF I = {} THEN Null ELSE attrs[MinOf(I, 0)][2]

HasHref(attrs) == \E i \in 1..Len(attrs) : attrs[i][1] = AttrHref
HasNonEmptyHref(attrs) == Truthy(HrefOf(attrs))

(* The hrefs of the <a> start tags, in order: of those with a non-empty    *)
(* href, or of all those with an href attribute                            *)
RECURSIVE AnchorHrefs(_, _, _)
AnchorHrefs(d, n, nonEmptyOnly) ==
    IF n = 0 THEN <<>>
    ELSE IF /\ IsStart(d[n], TagA)
            /\ IF nonEmptyOnly THEN HasNonEmptyHref(d[n].attrs)
                               ELSE HasHref(d[n].attrs)
         THEN Append(AnchorHrefs(d, n - 1, nonEmptyOnly), HrefOf(d[n].attrs))
         ELSE AnchorHrefs(d, n - 1, nonEmptyOnly)

LinkHrefs(links) == [i \in 1..Len(links) |-> links[i].href]

(* The text of the first <title> element *)
FirstTitleText(d) ==
    LET s == MinOf({k \in 1..Len(d) : IsStart(d[k], TagTitle)}, 0)
        e == MinOf({k \in (s + 1)..Len(d) : IsEnd(d[k], TagTitle)}, Len(d) + 1)
    IN IF s = 0 THEN <<>>
       ELSE ConcatTexts(d, {j \in (s + 1)..(e - 1) : d[j].kind = "data"})

(* The meta tags that describe the page: a name attribute that is          *)
(* "description" in any case, and a non-empty content (the last content    *)
(* attribute of the tag).                                                  *)
ContentOf(attrs) ==
    LET I == {i \in 1..Len(attrs) : attrs[i][1] = AttrContent} IN
    IF I = {} THEN Null ELSE attrs[MaxOf(I)][2]

IsDescriptionMeta(e) ==
    /\ IsStart(e, TagMeta)
    /\ \E i \in 1..Len(e.attrs) :
          /\ e.attrs[i][1] = AttrName
          /\ e.attrs[i][2] # Null
          /\ Lower(e.attrs[i][2]) = Description
    /\ Truthy(ContentOf(e.attrs))

DescriptionMetas(d) == {k \in 1..Len(d) : IsDescriptionMeta(d[k])}

----------------------------------------------------------------------------
C2_LinksAreNonEmptyHrefs ==
    data # Unset =>
        /\ LinkHrefs(data.links)
              = SliceTo(AnchorHrefs(doc, Len(doc), TRUE), MaxLinks)
        /\ Len(data.links)
              = Min(Len(AnchorHrefs(doc, Len(doc), TRUE)), MaxLinks)

(* C2's case: more than MaxLinks anchors with an href, among anchors       *)
(* without one                                                             *)
C2_Witness ==
    /\ data # Unset
    /\ Len(AnchorHrefs(doc, Len(doc), TRUE)) > MaxLinks
    /\ Len(data.links) = MaxLinks
    /\ \E i \in 1..Len(doc) :
          IsStart(doc[i], TagA) /\ ~HasNonEmptyHref(doc[i].attrs)

(* C2, as claimed: an entry for every <a> start tag on which an href       *)
(* attribute is present.                                                   *)
C2_Original ==
    data # Unset =>
        LinkHrefs(data.links)
            = SliceTo(AnchorHrefs(doc, Len(doc), FALSE), MaxLinks)

(* C3, as claimed: an end tag for title, a heading or p whose flag is      *)
(* false leaves headings, paragraphs, links, title and meta_description    *)
(* unchanged.                                                              *)
UnmatchedEnd(ps, e) ==
    \/ IsEnd(e, TagTitle) /\ ~ps.in_title
    \/ IsHeadingEnd(e) /\ ~ps.in_heading
    \/ IsEnd(e, TagP) /\ ~ps.in_paragraph

C3_UnmatchedEndIgnored ==
    [][(Len(doc') = Len(doc) + 1 /\ UnmatchedEnd(parser, doc'[Len(doc')]))
         => /\ parser'.headings = parser.headings
            /\ parser'.paragraphs = parser.paragraphs
            /\ parser'.links = parser.links
            /\ parser'.title = parser.title
            /\ parser'.meta_description = parser.meta_description]_vars

(* C4, as claimed: the record's title is the text of the first <title>     *)
(* element only.                                                           *)
C4_TitleIsFirstElement ==
    data # Unset => data.title = FirstTitleText(doc)

(* C5, as amended: metaDescription is last-match-wins: the content of the  *)
(* last description meta tag of the document, None without one.            *)
C5_LastDescriptionWins ==
    data # Unset =>
        data.metaDescription
            = IF DescriptionMetas(doc) = {} THEN Null
              ELSE ContentOf(doc[MaxOf(DescriptionMetas(doc))].attrs)

(* C5's case: several description meta tags of different contents *)
C5_Witness ==
    /\ data # Unset
    /\ \E i, j \in DescriptionMetas(doc) :
          /\ i < j
          /\ ContentOf(doc[i].attrs) # ContentOf(doc[j].attrs)
          /\ data.metaDescription = ContentOf(doc[j].attrs)

(* C5, as claimed: metaDescription is first-match-wins *)
C5_FirstDescriptionWins ==
    data # Unset =>
        data.metaDescription
            = IF DescriptionMetas(doc) = {} THEN Null
              ELSE ContentOf(doc[MinOf(DescriptionMetas(doc), 0)].attrs)

----------------------------------------------------------------------------
(* The snapshot records *)

IsFailure(d) == DOMAIN d = {"source_url", "scraped_at", "error"}
IsSuccess(d) == DOMAIN d = {"source_url", "scraped_at", "data"}

Holds(f, d) == f.exists /\ f.content = Encode(d)

(* scrape_website has returned, and no later run has begun *)
Settled == scr_pc \in {"returned", "idle"} /\ retval # Unset

(* A step in which the Server answers a request *)
Answers == srv_pc' = "idle" /\ <<srv_pc, route, srv_data, resp>>' # <<srv_pc, route, srv_data, resp>>

(* C6, as amended: a failure of the request, of decoding, of parsing, of   *)
(* serialization or of the try block's write is caught, and when           *)
(* scrape_website then returns it returns a Failure record of that         *)
(* exception which the snapshot file holds; an error leaves                *)
(* scrape_website only when the except clause's own write of the Failure   *)
(* record fails.                                                           *)
C6_CaughtUnlessHandlerWriteFails ==
    /\ (scr_pc = "returned" /\ frame.e # NoExc) =>
          /\ frame.handling
          /\ IsFailure(retval)
          /\ retval.error = frame.e
          /\ retval.source_url = Str(url)
          /\ Holds(file, retval)
    /\ (scr_pc = "returned" /\ frame.e = NoExc) => IsSuccess(retval)
    /\ scr_pc = "raised" =>
          /\ frame.handling
          /\ frame.e \in {OpenExc, WriteExc}
          /\ retval = Unset

(* C6's case: the write of the try block failed, and the Failure record of *)
(* that failure was returned and persisted                                 *)
C6_Witness ==
    /\ scr_pc = "returned"
    /\ frame.e = WriteExc
    /\ IsFailure(retval)
    /\ Holds(file, retval)

(* C6, as claimed: no error leaves scrape_website *)
C6_NeverEscapes == scr_pc # "raised"

(* C7: once scrape_website has returned, and until the next run, the       *)
(* snapshot file holds exactly the JSON of the value it returned, and      *)
(* reading it back gives that value: nothing of an earlier run remains.    *)
C7_StoreIsLastResult ==
    Settled =>
        /\ Holds(file, retval)
        /\ Decode(file.content) = [ok |-> TRUE, value |-> retval]

(* C7's case: a second run has returned; the Server had read the first     *)
(* run's snapshot, which differs from what the file now holds              *)
C7_Witness ==
    /\ scr_pc = "returned"
    /\ clock = 2
    /\ "source_url" \in DOMAIN srv_data
    /\ srv_data # retval
    /\ Holds(file, retval)

UnreachableRun == Settled /\ frame.e = URLErrorExc

C9_UnreachableEndToEnd ==
    /\ [](UnreachableRun =>
            /\ IsFailure(retval)
            /\ retval.error.type # <<>>
            /\ retval.error.message # <<>>
            /\ Holds(file, retval))
    /\ [][(UnreachableRun /\ Answers /\ route' = RouteIndex) =>
            /\ resp'.status = 200
            /\ Decode(resp'.body) = [ok |-> TRUE, value |-> retval]]_vars

(* C9's case: GET / was answered with the Failure record of the URLError *)
C9_Witness ==
    /\ UnreachableRun
    /\ srv_pc = "idle"
    /\ resp # Unset
    /\ resp.route = RouteIndex
    /\ Decode(resp.body) = [ok |-> TRUE, value |-> retval]
    /\ retval.error.type = <<"URLError">>

(* C10, as claimed: when the file holds a Failure record of the Extractor, *)
(* GET /ui renders the error banner and the banner's message is the        *)
(* Failure record's error message.                                         *)
C10_BannerShowsMessage ==
    [][(/\ Answers
        /\ route' = RouteUI
        /\ Settled
        /\ IsFailure(retval)
        /\ Holds(file, retval)) =>
            /\ resp'.page.section = "error"
            /\ resp'.page.message = Str(retval.error.message)]_vars

(* A snapshot that is missing or corrupt, as the step that answers the     *)
(* request finds it                                                        *)
MissingOrCorrupt == ~file.exists \/ ~Decode(file.content).ok

(* C11, as claimed: whatever the file holds (nothing, an empty or          *)
(* truncated file, text that is no JSON, any JSON value), GET / and GET    *)
(* /ui answer 200, with a synthesized error object when the snapshot is    *)
(* missing or corrupt.                                                     *)
C11_NeverServerError ==
    [][Answers =>
        /\ resp'.status = 200
        /\ MissingOrCorrupt => Truth(Get(srv_data', "error"))]_vars

(* A well-formed document with exactly one title element *)
SingleTitle(d) ==
    /\ WellFormed(d)
    /\ Cardinality({k \in 1..Len(d) : IsStart(d[k], TagTitle)}) = 1

(* C12: in a well-formed document with a single title element, the title   *)
(* of the record is the text of that element, untrimmed, whatever          *)
(* headings, paragraphs, anchors and meta tags come before it, after it or *)
(* around it.                                                              *)
C12_SingleTitleExact ==
    (data # Unset /\ SingleTitle(doc)) => data.title = FirstTitleText(doc)

(* C12's case: a title with a trailing blank inside a heading, after a     *)
(* meta tag                                                                *)
C12_Witness ==
    /\ data # Unset
    /\ SingleTitle(doc)
    /\ Len(doc) = 5
    /\ IsStart(doc[1], TagH1)
    /\ IsStart(doc[2], TagTitle)
    /\ doc[3] = DataEv(TextX)
    /\ data.title = TextX
    /\ Strip(data.title) # data.title

(* The step is the call of handle_starttag for a meta tag *)
MetaStart ==
    /\ Len(doc') = Len(doc) + 1
    /\ IsStart(doc'[Len(doc')], TagMeta)

(* The tag has a name attribute whose value is "description" in any case *)
NamesDescription(attrs) ==
    \E i \in 1..Len(attrs) :
        /\ attrs[i][1] = AttrName
        /\ attrs[i][2] # Null
        /\ Lower(attrs[i][2]) = Description

HasContent(attrs) == \E i \in 1..Len(attrs) : attrs[i][1] = AttrContent

(* C13, as amended: a meta start tag sets metaDescription to its content   *)
(* when it has a name attribute equal to "description" in any case and a   *)
(* content attribute whose value is not empty, in whichever order the two  *)
(* attributes come; every other meta tag, among them one whose content is  *)
(* present but empty, leaves metaDescription as it was.                    *)
C13_NonEmptyContentRecorded ==
    [][MetaStart =>
        LET attrs == doc'[Len(doc')].attrs IN
        parser'.meta_description
            = IF NamesDescription(attrs) /\ Truthy(ContentOf(attrs))
              THEN ContentOf(attrs)
              ELSE parser.meta_description]_vars

(* C13's case: a tag with the content before the name, and the name        *)
(* capitalized, replaced the description; a tag with an empty content had  *)
(* left the one before it in place                                         *)
C13_Witness ==
    /\ Len(doc) = 3
    /\ doc[1] = StartEv(TagMeta, MetaDesc1)
    /\ doc[2] = StartEv(TagMeta, MetaEmptyContent)
    /\ doc[3] = StartEv(TagMeta, MetaDesc2)
    /\ feed(SubSeq(doc, 1, 2)).meta_description = C1Text
    /\ parser.meta_description = C2Text

(* C13, as claimed: the content is recorded whenever the name is           *)
(* "description" and a content attribute is present                        *)
C13_AnyContentRecorded ==
    [][MetaStart =>
        LET attrs == doc'[Len(doc')].attrs IN
        parser'.meta_description
            = IF NamesDescription(attrs) /\ HasContent(attrs)
              THEN ContentOf(attrs)
              ELSE parser.meta_description]_vars

(* A step in which the Extractor process exits *)
Exits == proc' # proc /\ proc'.exit # Unset

(* A step in which the Extractor process calls scrape_website *)
Calls == scr_pc = "idle" /\ scr_pc' = "request"

(* Neither a positional argument nor a SCRAPE_URL value *)
NoUrlGiven(argv, env) == Len(argv) <= 1 /\ ~Truthy(env)

(* The first positional argument when there is one, otherwise the value of *)
(* SCRAPE_URL, is missing or empty                                         *)
NoUrlResolved(argv, env) ==
    IF Len(argv) > 1 THEN argv[2] = <<>> ELSE env = Null \/ env = <<>>

(* C14, as amended: the Extractor exits with status 1, the snapshot file   *)
(* untouched and scrape_website not called, exactly when the URL it        *)
(* resolves (the first positional argument if one is given, even an empty  *)
(* one, else SCRAPE_URL) is missing or empty; otherwise it calls           *)
(* scrape_website with that URL, exits with status 0 when scrape_website   *)
(* returns, a Failure record included, and with status 1 when an exception *)
(* leaves scrape_website.                                                  *)
C14_ExitStatus ==
    /\ [][Calls =>
            /\ ~NoUrlResolved(proc'.argv, proc'.env)
            /\ url' = ResolveUrl(proc'.argv, proc'.env)]_vars
    /\ [][Exits =>
            /\ scr_pc = "idle" =>
                  /\ NoUrlResolved(proc'.argv, proc'.env)
                  /\ proc'.exit = SysExit(1)
                  /\ file' = file
                  /\ scr_pc' = "idle"
            /\ scr_pc = "returned" => proc'.exit = SysExit(0)
            /\ scr_pc = "raised" => proc'.exit = SysExit(1)
            /\ scr_pc \in {"idle", "returned", "raised"}]_vars

(* C14's case: scrape_website returned a Failure record and the process    *)
(* exited with status 0                                                    *)
C14_Witness ==
    /\ scr_pc = "idle"
    /\ proc.exit = SysExit(0)
    /\ retval # Unset
    /\ IsFailure(retval)
    /\ proc.argv = <<Prog>>
    /\ url = EnvUrl

(* C14, as claimed: status 1 without a call exactly when there is neither  *)
(* a positional argument nor a SCRAPE_URL value; status 0 when             *)
(* scrape_website returns, status 1 when an exception leaves it.           *)
C14_ExitOneOnlyWithoutUrl ==
    /\ [][Calls => ~NoUrlGiven(proc'.argv, proc'.env)]_vars
    /\ [][Exits =>
            /\ scr_pc = "idle" =>
                  /\ NoUrlGiven(proc'.argv, proc'.env)
                  /\ proc'.exit = SysExit(1)
                  /\ file' = file
            /\ scr_pc = "returned" => proc'.exit = SysExit(0)
            /\ scr_pc = "raised" => proc'.exit = SysExit(1)]_vars

(* A step in which get_scraped_data reads the file it found *)
Reads == srv_pc = "open" /\ srv_pc' = "idle"

(* The file holds neither the previous snapshot nor the new one whole: it  *)
(* was truncated, or written in part, by this run or by one that failed    *)
Torn ==
    /\ \A d \in {snap, frame.out} \ {Unset} : file.content # Encode(d)
    /\ file.content = <<>> \/ file.content[Len(file.content)] # CloseBrace

(* C15: a read that falls anywhere in a run of the Extractor returns the   *)
(* last record written completely (the previous snapshot until the last    *)
(* chunk of the write, the new one from then on) when the file holds it    *)
(* whole, and the "Invalid scraped data" object when the file is truncated *)
(* or partly written; it never raises and never returns any other value.   *)
C15_ReadSeesWholeSnapshotOrError ==
    [][Reads =>
        /\ resp'.status = 200
        /\ \/ /\ snap # Unset
              /\ srv_data' = snap
              /\ Holds(file, snap)
              /\ scr_pc = "dump" => frame.out = snap
           \/ /\ srv_data' = InvalidData(JSONDecodeMsg, clock)
              /\ Torn]_vars

(* C15's case: while the second run was writing, one read found the file   *)
(* partly written and was answered with the error object; an earlier read  *)
(* in that run would have found the first run's record                     *)
C15_Witness ==
    /\ scr_pc = "dump"
    /\ frame.todo # <<>>
    /\ file.content # <<>>
    /\ clock = 2
    /\ snap # Unset
    /\ snap # frame.out
    /\ srv_pc = "idle"
    /\ srv_data = InvalidData(JSONDecodeMsg, clock)

(* The start tags that append a link, and the text each link ends with:    *)
(* the trimmed text of the first data event, between the link's start tag  *)
(* and the next such start tag, that is not empty once trimmed             *)
LinkStarts(d) ==
    {k \in 1..Len(d) : IsStart(d[k], TagA) /\ HasNonEmptyHref(d[k].attrs)}

LinkRank(d, k) == Cardinality({j \in LinkStarts(d) : j <= k})

LinkTextOf(d, k) ==
    LET next == MinOf({j \in LinkStarts(d) : j > k}, Len(d) + 1)
        J == {j \in (k + 1)..(next - 1) :
                 d[j].kind = "data" /\ Strip(d[j].text) # <<>>}
    IN IF J = {} THEN <<>> ELSE Strip(d[MinOf(J, 0)].text)

(* The step is a call of handle_data *)
DataStep ==
    /\ Len(doc') = Len(doc) + 1
    /\ doc'[Len(doc')].kind = "data"

(* C16: a data callback changes the text of no link but the last appended, *)
(* and that one only while it is empty; after any sequence of events each  *)
(* link's text is the trimmed text of the first data callback, non-empty   *)
(* once trimmed, between its start tag and the next link's start tag,      *)
(* whether its end tag came before or not, and empty when there is none.   *)
C16_LinkTextWriteOnce ==
    /\ [](/\ Len(parser.links) = Cardinality(LinkStarts(doc))
          /\ \A k \in LinkStarts(doc) :
                parser.links[LinkRank(doc, k)].text = LinkTextOf(doc, k))
    /\ [][DataStep =>
            /\ Len(parser'.links) = Len(parser.links)
            /\ \A i \in 1..Len(parser.links) :
                  \/ parser'.links[i] = parser.links[i]
                  \/ /\ i = Len(parser.links)
                     /\ parser.links[i].text = <<>>
                     /\ parser'.links[i].href = parser.links[i].href
                     /\ parser'.links[i].text = Strip(doc'[Len(doc')].text)]_vars

(* C16's case: a link whose anchor closed at once, then a blank text, the  *)
(* text that became the link's text, and a later text that left it alone   *)
C16_Witness ==
    /\ Len(doc) = 4
    /\ IsStart(doc[1], TagA)
    /\ IsEnd(doc[2], TagA)
    /\ doc[3] = DataEv(TextX)
    /\ doc[4] = DataEv(TextBlank)
    /\ Len(parser.links) = 1
    /\ parser.links[1].text = Strip(TextX)

(* The buffers a data callback appended its text to *)
Appended(ps, ps2, d) ==
    {b \in {"title", "current_heading", "current_paragraph"} :
        ps2[b] = ps[b] \o d /\ d # <<>>}

(* C17: a data callback appends its text to one buffer at most: the title  *)
(* when in_title, else the heading buffer when in_heading, else the        *)
(* paragraph buffer when in_paragraph, and to none when the three flags    *)
(* are false; the buffers it does not append to, the flags and the lists   *)
(* of headings and paragraphs stay as they are.                            *)
C17_OneBufferByPriority ==
    [][DataStep =>
        LET d == doc'[Len(doc')].text
            target == IF parser.in_title THEN {"title"}
                      ELSE IF parser.in_heading THEN {"current_heading"}
                      ELSE IF parser.in_paragraph THEN {"current_paragraph"}
                      ELSE {}
        IN /\ Appended(parser, parser', d) = target
           /\ \A b \in {"title", "current_heading", "current_paragraph"} \ target :
                 parser'[b] = parser[b]
           /\ \A f \in {"in_title", "in_heading", "in_paragraph"} :
                 parser'[f] = parser[f]
           /\ parser'.headings = parser.headings
           /\ parser'.paragraphs = parser.paragraphs
           /\ parser'.meta_description = parser.meta_description]_vars

(* C17's case: a text arrived with title, heading and paragraph all open,  *)
(* and went to the title alone                                             *)
C17_Witness ==
    /\ Len(doc) = 4
    /\ doc[4] = DataEv(TextX)
    /\ parser.in_title /\ parser.in_heading /\ parser.in_paragraph
    /\ parser.title = TextX
    /\ parser.current_heading = <<>>
    /\ parser.current_paragraph = <<>>

(* The end tag that closes the element the start tag at k opens: the first *)
(* event after which fewer elements are open than just after k             *)
MatchingEnd(d, k) ==
    MinOf({e \in (k + 1)..Len(d) :
             Len(OpenElements(SubSeq(d, 1, e)))
                 < Len(OpenElements(SubSeq(d, 1, k)))},
          Len(d) + 1)

(* The text of the element: every data event inside it, joined *)
ElementText(d, k) ==
    ConcatTexts(d, {j \in (k + 1)..(MatchingEnd(d, k) - 1) : d[j].kind = "data"})

(* The trimmed text of the first heading element whose trimmed text is not *)
(* empty, None when there is none                                          *)
FirstHeadingText(d) ==
    LET K == {k \in 1..Len(d) :
                 IsHeadingStart(d[k]) /\ Strip(ElementText(d, k)) # <<>>}
    IN IF K = {} THEN Null ELSE Strip(ElementText(d, MinOf(K, 0)))

IsTitleOrHeading(tag) == tag = TagTitle \/ IsHeadingTag(tag)

(* A well-formed document in which no title or heading lies inside a title *)
(* or a heading                                                            *)
HeadingsApart(d) ==
    /\ WellFormed(d)
    /\ \A k \in 1..Len(d) :
          (d[k].kind = "start" /\ IsTitleOrHeading(d[k].tag)) =>
              LET open == OpenElements(SubSeq(d, 1, k - 1)) IN
              \A i \in 1..Len(open) : ~IsTitleOrHeading(open[i])

HeadingStartStep ==
    /\ Len(doc') = Len(doc) + 1
    /\ IsHeadingStart(doc'[Len(doc')])

HeadingEndStep ==
    /\ Len(doc') = Len(doc) + 1
    /\ IsHeadingEnd(doc'[Len(doc')])

StartHandled(tag) ==
    tag \in {TagTitle, TagA, TagP, TagMeta} \/ IsHeadingTag(tag)

EndHandled(tag) == tag \in {TagTitle, TagP} \/ IsHeadingTag(tag)

(* C19: the start tag and the end tag of any element that is not title, a  *)
(* heading, a, p or meta, whatever its attributes, leave every field of    *)
(* the parser as it was, and so do the end tags of a and meta.             *)
C19_OtherTagsChangeNothing ==
    [][(/\ Len(doc') = Len(doc) + 1
        /\ LET e == doc'[Len(doc')] IN
           \/ e.kind = "start" /\ ~StartHandled(e.tag)
           \/ e.kind = "end" /\ ~EndHandled(e.tag))
       => parser' = parser]_vars

(* C19's case: inside an open paragraph with text, after a link, a <div>,  *)
(* an <hr> with an href and an </a> went by and the parser is as it was    *)
(* after the text                                                          *)
C19_Witness ==
    /\ Len(doc) = 4
    /\ IsStart(doc[1], TagP)
    /\ doc[2] = DataEv(TextX)
    /\ IsStart(doc[3], TagHr)
    /\ IsEnd(doc[4], TagA)
    /\ parser = feed(SubSeq(doc, 1, 2))
    /\ parser.in_paragraph
    /\ parser.current_paragraph = TextX

(* A record of the tagged union, for the URL u: source_url is u,           *)
(* scraped_at is a timestamp, and there is either the data of a page or an *)
(* error with message and type, not both and not neither                   *)
Tagged(d, u) ==
    /\ {"source_url", "scraped_at"} \subseteq DOMAIN d
    /\ d.source_url = Str(u)
    /\ \E t \in 0..MaxRuns : d.scraped_at = Str(Iso(t))
    /\ \/ /\ DOMAIN d = {"source_url", "scraped_at", "data"}
          /\ "title" \in DOMAIN d.data
       \/ /\ DOMAIN d = {"source_url", "scraped_at", "error"}
          /\ DOMAIN d.error = {"message", "type"}

(* C20: the record a run of scrape_website writes, from the open of the    *)
(* file on, is a record of the tagged union for the URL the run was called *)
(* with; so is every record that has been written completely, for the URL  *)
(* of its run; and whenever the file holds a whole JSON value it is such a *)
(* record.                                                                 *)
C20_RecordIsTaggedUnion ==
    /\ scr_pc \in {"open", "dump", "returned"} => Tagged(frame.out, url)
    /\ snap # Unset => \E u \in {Url, EnvUrl} : Tagged(snap, u)
    /\ Decode(file.content).ok =>
          \E u \in {Url, EnvUrl} : Tagged(Decode(file.content).value, u)

(* C20's case: the file holds the Failure record of a run for the URL of   *)
(* the environment, written by the except clause after the write of the    *)
(* try block had failed                                                    *)
C20_Witness ==
    /\ scr_pc = "returned"
    /\ url = EnvUrl
    /\ frame.handling
    /\ frame.e = WriteExc
    /\ Holds(file, frame.out)
    /\ Tagged(frame.out, EnvUrl)
    /\ "error" \in DOMAIN frame.out

====
